---- MODULE Spec2Model ----
(***************************************************************************)
(* Model of the AddressForm component (src/components/AddressForm.tsx):    *)
(* thirteen useState cells, the field change handlers, and the async       *)
(* handleSubmit with its two suspension points (auth lookup, persistence). *)
(* Strings that the identifier helpers inspect are sequences of one-       *)
(* character strings; all other text values are opaque strings.            *)
(***************************************************************************)
EXTENDS Integers, Sequences, FiniteSets, TLC

---------------------------------------------------------------------------
(* Bounds of the model. *)

\* number of field change events the user performs on one mounted form, beyond
\* those it takes to fill the required inputs of a blank form
MaxEdits == 2
\* number of submit events the user performs on one mounted form
MaxSubmits == 2
\* length of the identifier strings tried exhaustively
MaxRutLen == 3

---------------------------------------------------------------------------
(* Data drawn from the source. *)

\* values of the `categories` list
categories == {"casa", "trabajo", "vecino", "amigo", "familiares", "conserje", "otro"}

\* codes of the `countries` list
countries == {"CL", "AR", "PE", "BR", "CO", "MX", "US", "ES"}

\* values of the region catalog imported from @/lib/chile-regions
chileRegions == {"RM", "VA"}

\* the countries and categories the user picks among
CountryInputs == {"CL", "AR"}
CategoryInputs == {"casa", "otro"}

\* what a text input can hand to its onChange handler
TextValues == {"", "a"}

\* raw values the identifier input can hand to handleIdentificationChange
IdInputs ==
    { <<>>,
      <<"1", "9">>,
      <<"1", ".", "8">>,
      <<"6", "-", "k">> }

\* users the auth provider can resolve; NoUser is `user == null`
NoUser == "null"
Users == {"u1"}

\* errors the persistence API can return; NoError is `error == null`
NoError == "null"
ErrorMessages == {"db unavailable"}

\* messages of the exceptions handleSubmit itself raises
NoUserMessage == "No se encontro usuario"
StateUndefinedMessage == "state is not defined"

\* the absent `initialData` prop
NoData == [id |-> "none"]

\* pre-fill records the parent can pass as `initialData`
InitialDatas ==
    { [id |-> "a1", label |-> "a", street |-> "a", city |-> "a", state |-> "RM",
       zip_code |-> "a", country |-> "CL", is_default |-> TRUE, category |-> "casa",
       email |-> "a", phone |-> "a", identification |-> <<"1", "-", "9">>,
       full_name |-> "a"],
      [id |-> "a2", label |-> "a", street |-> "a", city |-> "a", state |-> "VA",
       zip_code |-> "", country |-> "CL", is_default |-> FALSE, category |-> "otro",
       email |-> "", phone |-> "", identification |-> <<>>,
       full_name |-> "a"],
      [id |-> "a3", label |-> "a", street |-> "a", city |-> "a", state |-> "Cordoba",
       zip_code |-> "", country |-> "AR", is_default |-> FALSE, category |-> "trabajo",
       email |-> "", phone |-> "", identification |-> <<>>,
       full_name |-> "a"] }

---------------------------------------------------------------------------
(* Identifier helpers imported from @/lib/format-rut. *)

Digits == {"0", "1", "2", "3", "4", "5", "6", "7", "8", "9"}

DigitChars == <<"0", "1", "2", "3", "4", "5", "6", "7", "8", "9">>

DigitValue(c) == (CHOOSE i \in 1..10 : DigitChars[i] = c) - 1

IsRutChar(c) == c \in Digits \cup {"k", "K"}

\* s.replace(/[^0-9kK-]/g, '')
StripInput(s) == SelectSeq(s, LAMBDA c : IsRutChar(c) \/ c = "-")

\* the content with everything but digits and k/K stripped
CleanRUT(s) == SelectSeq(s, IsRutChar)

\* one hyphen immediately before the final character of the cleaned content
formatRUT(s) ==
    LET cleaned == CleanRUT(s)
        n == Len(cleaned)
    IN  IF n = 0 THEN <<>>
        ELSE SubSeq(cleaned, 1, n - 1) \o <<"-">> \o <<cleaned[n]>>

UpperChar(c) == IF c = "k" THEN "K" ELSE c

RECURSIVE WeightedSum(_, _)
\* digits weighted 2..7 cyclically, starting at the least significant one
WeightedSum(body, k) ==
    IF k > Len(body) THEN 0
    ELSE DigitValue(body[Len(body) - k + 1]) * (2 + ((k - 1) % 6))
         + WeightedSum(body, k + 1)

CheckCharacter_NoK(body) ==
    LET r == 11 - (WeightedSum(body, 1) % 11)
    IN  IF r >= 10 THEN "0" ELSE DigitChars[r + 1]

CheckCharacter(body) ==
    LET r == 11 - (WeightedSum(body, 1) % 11)
    IN  IF r = 11 THEN "0" ELSE IF r = 10 THEN "K" ELSE DigitChars[r + 1]

\* digits, one hyphen, one check character
WellFormedRUT(s) ==
    /\ Len(s) >= 3
    /\ s[Len(s) - 1] = "-"
    /\ IsRutChar(s[Len(s)])
    /\ \A i \in 1..(Len(s) - 2) : s[i] \in Digits

isValidRUT(s) ==
    /\ WellFormedRUT(s)
    /\ UpperChar(s[Len(s)]) = CheckCharacter(SubSeq(s, 1, Len(s) - 2))

\* characters of the identifier strings tried exhaustively
RutAlphabet == {"0", "1", "6", "9", "k", "K", "-", "."}

\* longer identifiers: eight digits run the weights past one cycle
LongRuts ==
    { <<"1", "2", "3", "4", "5", "6", "7", "8", "-", "5">>,
      <<"1", "2", ".", "3", "4", "5", ".", "6", "7", "8", "-", "5">>,
      <<"1", "2", "3", "4", "5", "6", "7", "8", "-", "6">>,
      <<"1", "2", "3", "4", "5", "6", "7", "8", "5">> }

RutInputs ==
    {<<>>} \cup UNION {[1..n -> RutAlphabet] : n \in 1..MaxRutLen} \cup LongRuts

\* pre-fill records carrying each of these identifiers
RutDatas ==
    { [id |-> "a2", label |-> "a", street |-> "a", city |-> "a", state |-> "VA",
       zip_code |-> "", country |-> "CL", is_default |-> FALSE, category |-> "otro",
       email |-> "", phone |-> "", identification |-> x,
       full_name |-> "a"] : x \in RutInputs }

---------------------------------------------------------------------------
(* State. *)

VARIABLES
    initialData,       \* the `initialData` prop, NoData in create mode
    mounted,           \* the component is rendered (no render has thrown)
    loading,
    fullName, identification, email, phone, country, region, city, zipCode,
    street, label, isDefault, category, selectedCategory,
    submissions,       \* handleSubmit invocations, in the order they were started
    calls,             \* calls made on the collaborators, in order
    edits              \* field change events handled so far

fieldVars == <<fullName, identification, email, phone, country, region, city,
               zipCode, street, label, isDefault, category, selectedCategory>>

vars == <<initialData, mounted, loading, fieldVars, submissions, calls, edits>>

\* the field values a render's handleSubmit closes over
Fields ==
    [fullName |-> fullName, identification |-> identification, email |-> email,
     phone |-> phone, country |-> country, region |-> region, city |-> city,
     zipCode |-> zipCode, street |-> street, label |-> label,
     isDefault |-> isDefault, category |-> category]

\* the JSX evaluated for the render: the non-CL branch reads the undeclared
\* identifier `state` and throws a ReferenceError
RenderThrows(c) == c # "CL"

\* `initialData?.x || d` for a text prop
TextOr(field, d) ==
    IF initialData = NoData THEN d
    ELSE IF initialData[field] = "" THEN d ELSE initialData[field]

\* the required inputs the browser insists on before it fires a submit event
RequiredFilled == fullName # "" /\ city # "" /\ street # "" /\ label # ""

\* change events one form may see: a blank form needs four to become submittable
EditBudget == MaxEdits + IF initialData = NoData THEN 4 ELSE 0

SubmitDisabled_Never == FALSE

\* the submit Button's `disabled` attribute
SubmitDisabled == loading

---------------------------------------------------------------------------
(* The collaborators' calls handleSubmit makes. *)

GetUserCall(s) == [kind |-> "getUser", sub |-> s]

ValidationToast(s) ==
    [kind |-> "toast", sub |-> s, title |-> "Error",
     description |-> "El RUT ingresado no es valido", variant |-> "destructive"]

ErrorToast(s, message) ==
    [kind |-> "toast", sub |-> s, title |-> "Error",
     description |-> message, variant |-> "destructive"]

SuccessToast(s, pc) ==
    [kind |-> "toast", sub |-> s,
     title |-> IF pc = "update" THEN "Direccion actualizada" ELSE "Direccion guardada",
     description |-> IF pc = "update"
                     THEN "La direccion se ha actualizado correctamente."
                     ELSE "La direccion se ha guardado correctamente.",
     variant |-> "default"]

OnSuccessCall(s) == [kind |-> "onSuccess", sub |-> s]

UserMissing_Never(user) == FALSE

\* `if (!user) throw`
UserMissing(user) == user = NoUser

IdentificationRejected_Never(f) == FALSE

\* `identification && !isValidRUT(identification)`
IdentificationRejected(f) ==
    f.identification # <<>> /\ ~isValidRUT(f.identification)

\* `country === "CL" ? region : state` reads the undeclared `state`
StateFieldThrows(f) == f.country # "CL"

addressData_CityAsState(f, user) ==
    [label |-> f.label, street |-> f.street, city |-> f.city, state |-> f.city,
     zip_code |-> f.zipCode, country |-> f.country, is_default |-> f.isDefault,
     user_id |-> user, category |-> f.category, email |-> f.email,
     phone |-> f.phone, identification |-> f.identification,
     full_name |-> f.fullName]

addressData(f, user) ==
    [label |-> f.label, street |-> f.street, city |-> f.city, state |-> f.region,
     zip_code |-> f.zipCode, country |-> f.country, is_default |-> f.isDefault,
     user_id |-> user, category |-> f.category, email |-> f.email,
     phone |-> f.phone, identification |-> f.identification,
     full_name |-> f.fullName]

WriteCall_AlwaysInsert(s, f, user) ==
    [kind |-> "insert", sub |-> s, records |-> <<addressData(f, user)>>]

\* the persistence call: update matched on initialData.id, or insert
WriteCall(s, f, user) ==
    IF initialData # NoData
    THEN [kind |-> "update", sub |-> s, patch |-> addressData(f, user),
          id |-> initialData.id]
    ELSE [kind |-> "insert", sub |-> s, records |-> <<addressData(f, user)>>]

CatchCalls_AndComplete(s, message) == <<ErrorToast(s, message), OnSuccessCall(s)>>

\* the catch block
CatchCalls(s, message) == <<ErrorToast(s, message)>>

SuccessCalls_Silent(s, pc) == <<OnSuccessCall(s)>>

SuccessCalls_CallbackFirst(s, pc) == <<OnSuccessCall(s), SuccessToast(s, pc)>>

\* the statements after a persistence call that returned no error
SuccessCalls(s, pc) == <<SuccessToast(s, pc), OnSuccessCall(s)>>

SubmittedFields_Latest(sub) == Fields

\* the field values handleSubmit reads after an await: those of the render whose
\* handler the submit event invoked
SubmittedFields(sub) == sub.fields

\* `finally { setLoading(false) }`; a setter of an unmounted component does nothing
FinallyLoading == IF mounted THEN FALSE ELSE loading

Finished(sub, outcome) == [sub EXCEPT !.pc = "done", !.outcome = outcome]

---------------------------------------------------------------------------
(* Initial state: the first render. *)

InitFrom(datas) ==
    /\ initialData \in datas
    /\ loading = FALSE
    /\ fullName = TextOr("full_name", "")
    /\ identification = IF initialData = NoData THEN <<>> ELSE initialData.identification
    /\ email = TextOr("email", "")
    /\ phone = TextOr("phone", "")
    /\ country = TextOr("country", "CL")
    /\ region = TextOr("state", "")
    /\ city = TextOr("city", "")
    /\ zipCode = TextOr("zip_code", "")
    /\ street = TextOr("street", "")
    /\ label = TextOr("label", "")
    /\ isDefault = IF initialData = NoData THEN FALSE ELSE initialData.is_default
    /\ category = TextOr("category", "otro")
    /\ selectedCategory = category
    /\ mounted = ~RenderThrows(country)
    /\ submissions = <<>>
    /\ calls = <<>>
    /\ edits = 0

Init == InitFrom({NoData} \cup InitialDatas)

---------------------------------------------------------------------------
(* Field change handlers.  Each is a discrete event: the state update and *)
(* the re-render it causes are one step.                                   *)

CanEdit == mounted /\ edits < EditBudget

Edited == /\ edits' = edits + 1
          /\ UNCHANGED <<initialData, loading, submissions, calls>>

SetFullName ==
    /\ CanEdit
    /\ \E v \in TextValues \ {fullName} : fullName' = v
    /\ mounted' = ~RenderThrows(country)
    /\ Edited
    /\ UNCHANGED <<identification, email, phone, country, region, city, zipCode,
                   street, label, isDefault, category, selectedCategory>>

FormattedInput_Unformatted(raw) == StripInput(raw)

\* the value handleIdentificationChange stores for the input's value
FormattedInput(raw) == formatRUT(StripInput(raw))

handleIdentificationChange ==
    /\ CanEdit
    /\ \E raw \in IdInputs \ {identification} :
           identification' = FormattedInput(raw)
    /\ mounted' = ~RenderThrows(country)
    /\ Edited
    /\ UNCHANGED <<fullName, email, phone, country, region, city, zipCode,
                   street, label, isDefault, category, selectedCategory>>

SetEmail ==
    /\ CanEdit
    /\ \E v \in TextValues \ {email} : email' = v
    /\ mounted' = ~RenderThrows(country)
    /\ Edited
    /\ UNCHANGED <<fullName, identification, phone, country, region, city, zipCode,
                   street, label, isDefault, category, selectedCategory>>

SetPhone ==
    /\ CanEdit
    /\ \E v \in TextValues \ {phone} : phone' = v
    /\ mounted' = ~RenderThrows(country)
    /\ Edited
    /\ UNCHANGED <<fullName, identification, email, country, region, city, zipCode,
                   street, label, isDefault, category, selectedCategory>>

SetCountry ==
    /\ CanEdit
    /\ \E c \in CountryInputs \ {country} : country' = c
    /\ mounted' = ~RenderThrows(country')
    /\ Edited
    /\ UNCHANGED <<fullName, identification, email, phone, region, city, zipCode,
                   street, label, isDefault, category, selectedCategory>>

SetRegion ==
    /\ CanEdit
    /\ country = "CL"
    /\ \E r \in chileRegions \ {region} : region' = r
    /\ mounted' = ~RenderThrows(country)
    /\ Edited
    /\ UNCHANGED <<fullName, identification, email, phone, country, city, zipCode,
                   street, label, isDefault, category, selectedCategory>>

SetCity ==
    /\ CanEdit
    /\ \E v \in TextValues \ {city} : city' = v
    /\ mounted' = ~RenderThrows(country)
    /\ Edited
    /\ UNCHANGED <<fullName, identification, email, phone, country, region, zipCode,
                   street, label, isDefault, category, selectedCategory>>

SetStreet ==
    /\ CanEdit
    /\ \E v \in TextValues \ {street} : street' = v
    /\ mounted' = ~RenderThrows(country)
    /\ Edited
    /\ UNCHANGED <<fullName, identification, email, phone, country, region, city,
                   zipCode, label, isDefault, category, selectedCategory>>

SetZipCode ==
    /\ CanEdit
    /\ \E v \in TextValues \ {zipCode} : zipCode' = v
    /\ mounted' = ~RenderThrows(country)
    /\ Edited
    /\ UNCHANGED <<fullName, identification, email, phone, country, region, city,
                   street, label, isDefault, category, selectedCategory>>

SetLabel ==
    /\ CanEdit
    /\ \E v \in TextValues \ {label} : label' = v
    /\ mounted' = ~RenderThrows(country)
    /\ Edited
    /\ UNCHANGED <<fullName, identification, email, phone, country, region, city,
                   zipCode, street, isDefault, category, selectedCategory>>

SetIsDefault ==
    /\ CanEdit
    /\ isDefault' = ~isDefault
    /\ mounted' = ~RenderThrows(country)
    /\ Edited
    /\ UNCHANGED <<fullName, identification, email, phone, country, region, city,
                   zipCode, street, label, category, selectedCategory>>

SelectCategory ==
    /\ CanEdit
    /\ \E cat \in CategoryInputs \ {category} :
           /\ selectedCategory' = cat
           /\ category' = cat
    /\ mounted' = ~RenderThrows(country)
    /\ Edited
    /\ UNCHANGED <<fullName, identification, email, phone, country, region, city,
                   zipCode, street, label, isDefault>>

---------------------------------------------------------------------------
(* handleSubmit. *)

\* the submit event up to the first await
Submit ==
    /\ mounted
    /\ ~SubmitDisabled
    /\ RequiredFilled
    /\ Len(submissions) < MaxSubmits
    /\ loading' = TRUE
    /\ submissions' = Append(submissions,
           [pc |-> "getUser", fields |-> Fields, user |-> NoUser,
            error |-> NoError, outcome |-> "pending"])
    /\ calls' = Append(calls, GetUserCall(Len(submissions) + 1))
    /\ UNCHANGED <<initialData, mounted, fieldVars, edits>>

\* from the auth lookup's response to the next await or to the return
GetUserReturns ==
    \E s \in DOMAIN submissions, user \in Users \cup {NoUser} :
        LET sub == [submissions[s] EXCEPT !.user = user]
            f == SubmittedFields(sub)
        IN  /\ submissions[s].pc = "getUser"
            /\ IF UserMissing(user)
               THEN /\ calls' = calls \o CatchCalls(s, NoUserMessage)
                    /\ submissions' = [submissions EXCEPT ![s] = Finished(sub, "unauthenticated")]
                    /\ loading' = FinallyLoading
               ELSE IF IdentificationRejected(f)
               THEN /\ calls' = Append(calls, ValidationToast(s))
                    /\ submissions' = [submissions EXCEPT ![s] = Finished(sub, "invalid")]
                    /\ loading' = FinallyLoading
               ELSE IF StateFieldThrows(f)
               THEN /\ calls' = calls \o CatchCalls(s, StateUndefinedMessage)
                    /\ submissions' = [submissions EXCEPT ![s] = Finished(sub, "threw")]
                    /\ loading' = FinallyLoading
               ELSE /\ calls' = Append(calls, WriteCall(s, f, user))
                    /\ submissions' = [submissions EXCEPT
                           ![s] = [sub EXCEPT !.pc = WriteCall(s, f, user).kind]]
                    /\ UNCHANGED loading
            /\ UNCHANGED <<initialData, mounted, fieldVars, edits>>

\* from the persistence call's response to the return
PersistReturns ==
    \E s \in DOMAIN submissions, error \in ErrorMessages \cup {NoError} :
        LET sub == [submissions[s] EXCEPT !.error = error]
        IN  /\ submissions[s].pc \in {"insert", "update"}
            /\ IF error # NoError
               THEN /\ calls' = calls \o CatchCalls(s, error)
                    /\ submissions' = [submissions EXCEPT ![s] = Finished(sub, "failure")]
               ELSE /\ calls' = calls \o SuccessCalls(s, sub.pc)
                    /\ submissions' = [submissions EXCEPT ![s] = Finished(sub, "success")]
            /\ loading' = FinallyLoading
            /\ UNCHANGED <<initialData, mounted, fieldVars, edits>>

Next ==
    \/ SetFullName
    \/ handleIdentificationChange
    \/ SetEmail
    \/ SetPhone
    \/ SetCountry
    \/ SetRegion
    \/ SetCity
    \/ SetStreet
    \/ SetZipCode
    \/ SetLabel
    \/ SetIsDefault
    \/ SelectCategory
    \/ Submit
    \/ GetUserReturns
    \/ PersistReturns

Spec == Init /\ [][Next]_vars

---------------------------------------------------------------------------
(* The identifier helpers on their own: a form pre-filled with any identifier, *)
(* whose identifier field is fed back through its change handler and handed    *)
(* to the validator.                                                           *)

RutInit == InitFrom(RutDatas)

\* the identifier input hands its current value to handleIdentificationChange
RutFeed ==
    /\ CanEdit
    /\ identification' = FormattedInput(identification)
    /\ mounted' = ~RenderThrows(country)
    /\ Edited
    /\ UNCHANGED <<fullName, email, phone, country, region, city, zipCode,
                   street, label, isDefault, category, selectedCategory>>

IsValidRUTCall(s) == [kind |-> "isValidRUT", sub |-> 0, arg |-> s, result |-> isValidRUT(s)]

\* isValidRUT(identification), once for each value the field takes
RutValidate ==
    /\ \A i \in DOMAIN calls : calls[i].arg # identification
    /\ calls' = Append(calls, IsValidRUTCall(identification))
    /\ UNCHANGED <<initialData, mounted, loading, fieldVars, submissions, edits>>

RutNext ==
    \/ RutFeed
    \/ RutValidate

RutSpec == RutInit /\ [][RutNext]_vars

---------------------------------------------------------------------------
(* Vocabulary of the properties. *)

CallsOf(s, kind) == SelectSeq(calls, LAMBDA c : c.sub = s /\ c.kind = kind)

WritesOf(s) == SelectSeq(calls, LAMBDA c : c.sub = s /\ c.kind \in {"insert", "update"})

ToastsOf(s) == CallsOf(s, "toast")

DestructiveToastsOf(s) ==
    SelectSeq(calls, LAMBDA c : c.sub = s /\ c.kind = "toast" /\ c.variant = "destructive")

InFlight(s) == submissions[s].pc # "done"

Completed(s) == submissions[s].pc = "done"

\* the auth lookup of submission s has responded
LookedUp(s) == submissions[s].pc # "getUser"

\* submission s completes in this step
Completes(s) == submissions[s].pc # "done" /\ submissions'[s].pc = "done"

\* the form is in its editing state: rendered, submit control enabled
Editing == mounted /\ ~loading

\* a record carries exactly the field values f
RecordMatches(r, f) ==
    /\ r.label = f.label
    /\ r.street = f.street
    /\ r.city = f.city
    /\ r.state = f.region
    /\ r.zip_code = f.zipCode
    /\ r.country = f.country
    /\ r.is_default = f.isDefault
    /\ r.category = f.category
    /\ r.email = f.email
    /\ r.phone = f.phone
    /\ r.identification = f.identification
    /\ r.full_name = f.fullName

InvalidIdentifier(f) == f.identification # <<>> /\ ~isValidRUT(f.identification)

Range(seq) == {seq[i] : i \in DOMAIN seq}

---------------------------------------------------------------------------
(* Properties. *)

\* C1: in create mode (no pre-fill record) update is never called, and a
\* successful submission has made exactly one insert call, of exactly one
\* record carrying the field values entered when it was submitted, and exactly
\* one call of the completion callback.
C1_CreateInsertsOnce ==
    initialData = NoData =>
        \A s \in DOMAIN submissions :
            /\ Len(CallsOf(s, "update")) = 0
            /\ submissions[s].outcome = "success" =>
                   /\ Len(CallsOf(s, "insert")) = 1
                   /\ Len(CallsOf(s, "insert")[1].records) = 1
                   /\ RecordMatches(CallsOf(s, "insert")[1].records[1],
                                    submissions[s].fields)
                   /\ Len(CallsOf(s, "onSuccess")) = 1

C1_Witness ==
    /\ initialData = NoData
    /\ \E s \in DOMAIN submissions :
           /\ submissions[s].outcome = "success"
           /\ submissions[s].fields.email = "a"

\* C2: in edit mode (pre-fill record) insert is never called, and a successful
\* submission has made exactly one update call, matched on the id of the
\* pre-fill record.
C2_EditUpdatesOnce ==
    initialData # NoData =>
        \A s \in DOMAIN submissions :
            /\ Len(CallsOf(s, "insert")) = 0
            /\ submissions[s].outcome = "success" =>
                   /\ Len(CallsOf(s, "update")) = 1
                   /\ CallsOf(s, "update")[1].id = initialData.id

C2_Witness ==
    /\ initialData # NoData
    /\ \E s \in DOMAIN submissions : submissions[s].outcome = "success"

\* C3: a submission whose auth lookup returned no user makes no insert and no
\* update call, shows a destructive notification, and does not call the
\* completion callback.
C3_NoUserNoWrite ==
    \A s \in DOMAIN submissions :
        (LookedUp(s) /\ submissions[s].user = NoUser) =>
            /\ Len(WritesOf(s)) = 0
            /\ Len(DestructiveToastsOf(s)) >= 1
            /\ Len(CallsOf(s, "onSuccess")) = 0
            /\ Completed(s)

C3_Witness ==
    \E s \in DOMAIN submissions :
        /\ Completed(s)
        /\ submissions[s].user = NoUser
        /\ ~InvalidIdentifier(submissions[s].fields)

\* C4 as stated: a completed submission whose identifier was present and
\* failed the validator made no write call and showed the validation
\* notification; one whose identifier was empty showed no validation
\* notification.
C4_AsStated ==
    \A s \in DOMAIN submissions :
        Completed(s) =>
            /\ InvalidIdentifier(submissions[s].fields) =>
                   /\ Len(WritesOf(s)) = 0
                   /\ ValidationToast(s) \in Range(ToastsOf(s))
            /\ submissions[s].fields.identification = <<>> =>
                   ValidationToast(s) \notin Range(ToastsOf(s))

\* C4 (amended): a submission whose identifier was present and failed the
\* validator never makes a write call, and shows the validation notification
\* when its auth lookup returned a user; a submission whose identifier was
\* empty shows no validation notification and, when its auth lookup returned a
\* user, goes on to its write call.
C4_InvalidIdentifierNoWrite ==
    \A s \in DOMAIN submissions :
        LET f == submissions[s].fields
        IN  /\ InvalidIdentifier(f) =>
                   /\ Len(WritesOf(s)) = 0
                   /\ (LookedUp(s) /\ submissions[s].user # NoUser) =>
                          /\ ValidationToast(s) \in Range(ToastsOf(s))
                          /\ Completed(s)
            /\ f.identification = <<>> =>
                   /\ ValidationToast(s) \notin Range(ToastsOf(s))
                   /\ (LookedUp(s) /\ submissions[s].user # NoUser /\ f.country = "CL") =>
                          Len(WritesOf(s)) = 1

C4_Witness ==
    \E s, r \in DOMAIN submissions :
        /\ Completed(s)
        /\ InvalidIdentifier(submissions[s].fields)
        /\ submissions[s].user # NoUser
        /\ submissions[r].fields.identification = <<>>
        /\ Len(WritesOf(r)) = 1

\* C5: a submission whose persistence call returned an error never calls the
\* completion callback and shows a destructive notification whose description
\* is the error's message; the step that handles the error changes no field.
C5_FailureKeepsFields ==
    /\ [](\A s \in DOMAIN submissions :
            (Completed(s) /\ submissions[s].error # NoError) =>
                /\ Len(CallsOf(s, "onSuccess")) = 0
                /\ \E i \in DOMAIN DestructiveToastsOf(s) :
                       DestructiveToastsOf(s)[i].description = submissions[s].error)
    /\ [][\A s \in DOMAIN submissions :
            (Completes(s) /\ submissions'[s].error # NoError) =>
                fieldVars' = fieldVars]_vars

C5_Witness ==
    \E s \in DOMAIN submissions :
        /\ Completed(s)
        /\ submissions[s].error # NoError
        /\ Fields # submissions[s].fields

\* C6: at most one submission is in flight at any time.
C6_OneInFlight ==
    Cardinality({s \in DOMAIN submissions : InFlight(s)}) <= 1

\* a submission is in flight on a form that would otherwise accept a submit event
C6_Witness ==
    /\ \E s \in DOMAIN submissions : InFlight(s)
    /\ mounted
    /\ RequiredFilled
    /\ Len(submissions) < MaxSubmits

\* C7: the step that completes a submission, whatever its outcome, leaves the
\* form in the editing state.
C7_CompletionReturnsToEditing ==
    [][\A s \in DOMAIN submissions : Completes(s) => Editing']_vars

\* C8: every record written by insert or update whose country is CL has a
\* state that is a value of the region catalog.
C8_WrittenRegionInCatalog ==
    \A i \in DOMAIN calls :
        LET r == IF calls[i].kind = "insert" THEN calls[i].records[1]
                 ELSE IF calls[i].kind = "update" THEN calls[i].patch
                 ELSE [country |-> "none"]
        IN  r.country = "CL" => r.state \in chileRegions

\* C9: the step that ends a submission in one of the error kinds leaves the
\* field values as they were and the form in the editing state, ready for a
\* new submit event.
C9_ErrorLeavesFormUsable ==
    [][\A s \in DOMAIN submissions :
         (Completes(s) /\ submissions'[s].outcome # "success") =>
             /\ fieldVars' = fieldVars
             /\ Editing']_vars

\* C10: no submission shows more than two notifications; a completed one shows
\* at least one: a success notification when its write succeeded, a
\* destructive one otherwise.
C10_EveryOutcomeNotified ==
    \A s \in DOMAIN submissions :
        /\ Len(ToastsOf(s)) <= 2
        /\ Completed(s) =>
               /\ Len(ToastsOf(s)) >= 1
               /\ IF Len(WritesOf(s)) = 1 /\ submissions[s].error = NoError
                  THEN \E i \in DOMAIN ToastsOf(s) :
                           /\ ToastsOf(s)[i].variant = "default"
                           /\ ToastsOf(s)[i] = SuccessToast(s, WritesOf(s)[1].kind)
                  ELSE Len(DestructiveToastsOf(s)) >= 1

C10_Witness ==
    \E s, r \in DOMAIN submissions :
        /\ Completed(s) /\ Completed(r)
        /\ submissions[s].outcome = "success"
        /\ submissions[r].outcome = "invalid"

\* the field values are the ones the pre-fill record carries
PrefilledFrom(d) ==
    /\ fullName = d.full_name
    /\ identification = d.identification
    /\ email = d.email
    /\ phone = d.phone
    /\ country = d.country
    /\ region = d.state
    /\ city = d.city
    /\ zipCode = d.zip_code
    /\ street = d.street
    /\ label = d.label
    /\ isDefault = d.is_default
    /\ category = d.category

\* the text fields are empty and the default flag is off
BlankForm ==
    /\ fullName = "" /\ identification = <<>> /\ email = "" /\ phone = ""
    /\ region = "" /\ city = "" /\ zipCode = "" /\ street = "" /\ label = ""
    /\ isDefault = FALSE

\* no event has been handled since the first render
FirstRender == edits = 0 /\ submissions = <<>>

\* C11: after the first render the form is in the editing state; in edit mode
\* every field has the value of the pre-fill record, in create mode every text
\* field is empty and the default flag is off.
C11_InitialStateEditing ==
    FirstRender =>
        /\ Editing
        /\ initialData # NoData => PrefilledFrom(initialData)
        /\ initialData = NoData => BlankForm

IndicesOf(s, kinds) == {i \in DOMAIN calls : calls[i].sub = s /\ calls[i].kind \in kinds}

SuccessToastIndicesOf(s) ==
    {i \in IndicesOf(s, {"toast"}) : calls[i].variant = "default"}

\* the record a write call carries
WrittenRecord(c) == IF c.kind = "insert" THEN c.records[1] ELSE c.patch

\* C14: the completion callback is called at most once per submission, only
\* by a submission whose persistence call has returned without error, and
\* only after that submission's write call and its success notification, in
\* that order.
C14_CallbackAfterSuccessToast ==
    \A s \in DOMAIN submissions :
        /\ Cardinality(IndicesOf(s, {"onSuccess"})) <= 1
        /\ \A j \in IndicesOf(s, {"onSuccess"}) :
               /\ Completed(s)
               /\ submissions[s].error = NoError
               /\ \E i \in IndicesOf(s, {"insert", "update"}) :
                      \E k \in SuccessToastIndicesOf(s) : i < k /\ k < j

C14_Witness ==
    \E s, r \in DOMAIN submissions :
        /\ IndicesOf(s, {"onSuccess"}) # {}
        /\ submissions[r].error # NoError
        /\ IndicesOf(r, {"onSuccess"}) = {}

\* C15: with a country other than CL the form is rendered, and a submission by
\* an authenticated user with an empty or valid identifier makes its write
\* call with the record's state equal to the text of the region field.
C15_FreeTextRegionWritten ==
    /\ country # "CL" => mounted
    /\ \A s \in DOMAIN submissions :
           LET f == submissions[s].fields
           IN  (/\ LookedUp(s)
                /\ submissions[s].user # NoUser
                /\ ~InvalidIdentifier(f)
                /\ f.country # "CL") =>
                   /\ Len(WritesOf(s)) = 1
                   /\ WrittenRecord(WritesOf(s)[1]).state = f.region

\* C16: the record a submission writes carries the field values of the moment
\* its submit event fired, and the submission is rejected as invalid exactly
\* when the identifier of that moment fails the validator, whatever the fields
\* hold by the time the auth lookup or the persistence call responds.
C16_SubmitTimeValuesUsed ==
    \A s \in DOMAIN submissions :
        /\ \A i \in DOMAIN WritesOf(s) :
               RecordMatches(WrittenRecord(WritesOf(s)[i]), submissions[s].fields)
        /\ (LookedUp(s) /\ submissions[s].user # NoUser) =>
               (submissions[s].outcome = "invalid"
                    <=> InvalidIdentifier(submissions[s].fields))

\* a write is pending whose record no longer equals the fields of the form
C16_Witness ==
    \E s \in DOMAIN submissions :
        /\ submissions[s].pc \in {"insert", "update"}
        /\ ~RecordMatches(WrittenRecord(WritesOf(s)[1]), Fields)
        /\ InvalidIdentifier(Fields)

\* C12: once the identifier field holds what the change handler stored,
\* stripping and formatting it again gives the same value: feeding the field
\* back through the handler leaves it unchanged; and the handler stores the
\* empty string for empty input.
C12_HandlerIdempotent ==
    /\ edits >= 1 => formatRUT(StripInput(identification)) = identification
    /\ (edits >= 1 /\ StripInput(initialData.identification) = <<>>) =>
           identification = <<>>

\* an identifier typed with punctuation was stored and fed back unchanged
C12_Witness ==
    /\ edits >= 2
    /\ initialData.identification = <<"1", ".", "9">>
    /\ identification = <<"1", "-", "9">>

\* digits, a hyphen, and a final digit or k/K
HasRutShape(s) ==
    /\ Len(s) >= 3
    /\ \A i \in 1..Len(s) :
           IF i = Len(s) THEN s[i] \in Digits \cup {"k", "K"}
           ELSE IF i = Len(s) - 1 THEN s[i] = "-"
           ELSE s[i] \in Digits

CheckValue(c) == IF c \in {"k", "K"} THEN 10 ELSE DigitValue(c)

RutWeights == <<2, 3, 4, 5, 6, 7>>

RECURSIVE BodySum(_, _)
\* the first n digits of s, the last of them weighted 2, the one before 3, ...
BodySum(s, n) ==
    IF n = 0 THEN 0
    ELSE LET m == Len(s) - 2
         IN  DigitValue(s[n]) * RutWeights[((m - n) % 6) + 1] + BodySum(s, n - 1)

\* the check character completes the weighted sum to a multiple of 11
ChecksumAgrees(s) == (BodySum(s, Len(s) - 2) + CheckValue(s[Len(s)])) % 11 = 0

\* C13: every call of the validator returns a boolean: TRUE exactly when the
\* argument is digits, a hyphen and a check character that equals, whatever
\* its case, the modulo-11 checksum of the digits (weights 2..7 cycling from
\* the last digit; 11 gives '0', 10 gives 'K'); FALSE for the empty string,
\* for strings with no digits and for every other malformed argument.
C13_ValidatorChecksum ==
    \A i \in DOMAIN calls :
        LET s == calls[i].arg
            r == calls[i].result
        IN  /\ r \in BOOLEAN
            /\ r <=> (HasRutShape(s) /\ ChecksumAgrees(s))
            /\ (\A j \in DOMAIN s : s[j] \notin Digits) => r = FALSE
            /\ s = <<"1", "2", "3", "4", "5", "6", "7", "8", "-", "5">> => r = TRUE
            /\ s = <<"1", "2", "3", "4", "5", "6", "7", "8", "-", "6">> => r = FALSE

\* an unformatted identifier was rejected and, once formatted, accepted with a
\* lower-case check character
C13_Witness ==
    \E i, j \in DOMAIN calls :
        /\ calls[i].arg = <<"6", "k">> /\ calls[i].result = FALSE
        /\ calls[j].arg = <<"6", "-", "k">> /\ calls[j].result = TRUE

====
